---- MODULE Spec2Model ----
(***************************************************************************)
(* Model of goldenverba/components/generation/GeminiGenerator.py:          *)
(* GPT4Generator.prepare_messages, GPT4Generator.generate and the async    *)
(* generator GPT4Generator.generate_stream, together with the process      *)
(* environment (os.environ), the module-level configuration of the openai  *)
(* client and the transport that delivers the streamed chunks.             *)
(***************************************************************************)
EXTENDS Integers, Sequences, FiniteSets, TLC

\* ------------------------------------------------------------------ bounds
MaxItems == 2        \* longest queries / context list
MaxTurns == 2        \* longest conversation
MaxChunks == 4       \* chunks one streamed response may carry (SpecStream)
MaxCfgChunks == 1    \* chunks one streamed response may carry (Spec)
MaxCalls == 2        \* invocations of generate / generate_stream (Spec)
MaxEnvChanges == 2   \* changes of os.environ between and during calls (Spec)

\* ------------------------------------------------------------ Python values
None == "None"       \* Python's None
Absent == "<absent>" \* a name that is not in os.environ

\* self.model_name, set at construction
model_name == "gemini-1.5-pro-preview-0409"

\* names bound at module level of GeminiGenerator.py (lines 1-13)
ModuleGlobals ==
    {"asyncio", "os", "Iterator", "vertexai", "GenerativeModel",
     "load_dotenv", "Generator", "GPT4Generator"}

\* ------------------------------------------------------- prepare_messages
SYSTEM_CONTENT ==
    "You are Verba, The Golden RAGtriever, a chatbot for Retrieval Augmented Generation (RAG). You will receive a user query and context pieces that have a semantic similarity to that specific query. Please answer these user queries only their provided context. If the provided documentation does not provide enough information, say so. If the user asks questions about you as a chatbot specifially, answer them naturally. If the answer requires code examples encapsulate them with ```programming-language-name ```. Don't do pseudo-code."

\* A Python str built by concatenation is modelled as the sequence of its
\* pieces; Join is " ".join(items).
RECURSIVE Join(_)
Join(items) ==
    IF Len(items) = 0 THEN <<>>
    ELSE IF Len(items) = 1 THEN <<items[1]>>
    ELSE <<items[1], " ">> \o Join(Tail(items))

\* f"Please answer this query: '{query}' with this provided context: {user_context}"
UserContent(query, user_context) ==
    <<"Please answer this query: '">> \o query
        \o <<"' with this provided context: ">> \o user_context

RECURSIVE AppendTurns(_, _)
AppendTurns(messages, conversation) ==
    IF Len(conversation) = 0 THEN messages
    ELSE AppendTurns(
            Append(messages, [role |-> Head(conversation).type,
                              content |-> <<Head(conversation).content>>]),
            Tail(conversation))

\* a plausible slip: the history is filtered (system turns are dropped)
RECURSIVE AppendTurnsFiltered(_, _)
AppendTurnsFiltered(messages, conversation) ==
    IF Len(conversation) = 0 THEN messages
    ELSE AppendTurnsFiltered(
            IF Head(conversation).type = "system" THEN messages
            ELSE Append(messages, [role |-> Head(conversation).type,
                                   content |-> <<Head(conversation).content>>]),
            Tail(conversation))

prepare_messages_filtered(queries, context, conversation) ==
    Append(AppendTurnsFiltered(
               <<[role |-> "system", content |-> <<SYSTEM_CONTENT>>]>>,
               conversation),
           [role |-> "user",
            content |-> UserContent(Join(queries), Join(context))])

prepare_messages(queries, context, conversation) ==
    Append(AppendTurns(
               <<[role |-> "system", content |-> <<SYSTEM_CONTENT>>]>>,
               conversation),
           [role |-> "user",
            content |-> UserContent(Join(queries), Join(context))])

\* "if conversation is None: conversation = {}" ; iterating {} yields nothing
DefaultConversation(a) ==
    IF a.conversationIsNone THEN <<>> ELSE a.conversation

\* ------------------------------------------------------------ input domains
SeqsUpTo(S, n) == UNION {[1..k -> S] : k \in 0..n}

Texts == {"a", "b"}
Turns ==
    {[type |-> "user", content |-> "hi"],
     [type |-> "assistant", content |-> "hello"],
     [type |-> "system", content |-> "hi"]}

ComposeArgs ==
    [queries : SeqsUpTo(Texts, MaxItems),
     context : SeqsUpTo(Texts, MaxItems),
     conversation : SeqsUpTo(Turns, MaxTurns),
     conversationIsNone : {FALSE}]
    \cup
    [queries : SeqsUpTo(Texts, MaxItems),
     context : SeqsUpTo(Texts, MaxItems),
     conversation : {<<>>},
     conversationIsNone : {TRUE}]

\* the arguments the calls of Spec and SpecStream are made with
CallArgs ==
    {[queries |-> <<>>, context |-> <<>>, conversation |-> <<>>,
      conversationIsNone |-> TRUE],
     [queries |-> <<"a", "b">>, context |-> <<"a">>,
      conversation |-> <<[type |-> "user", content |-> "hi"],
                         [type |-> "assistant", content |-> "hello"]>>,
      conversationIsNone |-> FALSE]}

\* ------------------------------------------------------------- environment
EnvSet ==
    [OPENAI_API_KEY : {Absent, "sk-1"},
     OPENAI_BASE_URL : {Absent, "", "http://proxy"},
     OPENAI_API_TYPE : {Absent, "azure", "open_ai"},
     OPENAI_API_BASE : {Absent, "http://base"},
     OPENAI_API_VERSION : {Absent, "2023-05-15"}]

\* os.getenv(name): None when the name is absent
getenv(e, name) == IF e[name] = Absent THEN None ELSE e[name]

\* os.environ.get(name, default)
environ_get(e, name, default) == IF e[name] = Absent THEN default ELSE e[name]

\* the environments the process starts with: nothing set, everything set
EnvNone == [n \in {"OPENAI_API_KEY", "OPENAI_BASE_URL", "OPENAI_API_TYPE",
                   "OPENAI_API_BASE", "OPENAI_API_VERSION"} |-> Absent]

EnvFull ==
    [OPENAI_API_KEY |-> "sk-1", OPENAI_BASE_URL |-> "http://proxy",
     OPENAI_API_TYPE |-> "azure", OPENAI_API_BASE |-> "http://base",
     OPENAI_API_VERSION |-> "2023-05-15"]

StartEnvs == {EnvNone, EnvFull}

\* module-level configuration of the openai client when it is first imported
OpenAIDefaults ==
    [api_key |-> None, api_base |-> "https://api.openai.com/v1",
     api_type |-> "open_ai", api_version |-> None]

\* a plausible slip: the API version is assigned like the key, unconditionally
ApplyConfigEager(cfg, e) ==
    LET c1 == [cfg EXCEPT !.api_key = getenv(e, "OPENAI_API_KEY")]
        base_url == environ_get(e, "OPENAI_BASE_URL", "")
        c2 == IF base_url # "" THEN [c1 EXCEPT !.api_base = base_url] ELSE c1
        c3 == IF e["OPENAI_API_TYPE"] # Absent
              THEN [c2 EXCEPT !.api_type = getenv(e, "OPENAI_API_TYPE")] ELSE c2
        c4 == IF e["OPENAI_API_BASE"] # Absent
              THEN [c3 EXCEPT !.api_base = getenv(e, "OPENAI_API_BASE")] ELSE c3
    IN  [c4 EXCEPT !.api_version = getenv(e, "OPENAI_API_VERSION")]

\* generate_stream, lines 88-98: the writes to the openai module
ApplyConfig(cfg, e) ==
    LET c1 == [cfg EXCEPT !.api_key = getenv(e, "OPENAI_API_KEY")]
        base_url == environ_get(e, "OPENAI_BASE_URL", "")
        c2 == IF base_url # "" THEN [c1 EXCEPT !.api_base = base_url] ELSE c1
        c3 == IF e["OPENAI_API_TYPE"] # Absent
              THEN [c2 EXCEPT !.api_type = getenv(e, "OPENAI_API_TYPE")] ELSE c2
        c4 == IF e["OPENAI_API_BASE"] # Absent
              THEN [c3 EXCEPT !.api_base = getenv(e, "OPENAI_API_BASE")] ELSE c3
    IN  IF e["OPENAI_API_VERSION"] # Absent
        THEN [c4 EXCEPT !.api_version = getenv(e, "OPENAI_API_VERSION")] ELSE c4

\* generate_stream, lines 100-107: chat_completion_arguments
StreamArguments(cfg, msgs) ==
    LET base == [model |-> model_name, messages |-> msgs,
                 stream |-> TRUE, temperature |-> "0.0"]
    IN  IF cfg.api_type = "azure"
        THEN [model |-> base.model, messages |-> base.messages,
              stream |-> base.stream, temperature |-> base.temperature,
              deployment_id |-> model_name]
        ELSE base

\* generate, lines 51-53: chat_completion_arguments
GenerateArguments(cfg, msgs) ==
    LET base == [model |-> model_name, messages |-> msgs]
    IN  IF cfg.api_type = "azure"
        THEN [model |-> base.model, messages |-> base.messages,
              deployment_id |-> model_name]
        ELSE base

\* --------------------------------------------------------------- transport
\* chunk["choices"][i] = {"delta": {...}, "finish_reason": ...}
Choice(delta, fr) == [delta |-> delta, finish_reason |-> fr]

Chunks ==
    {[choices |-> <<>>],
     [choices |-> <<Choice([content |-> "Hel"], None)>>],
     [choices |-> <<Choice([content |-> "lo"], "stop")>>],
     [choices |-> <<Choice([role |-> "assistant"], None)>>],
     [choices |-> <<Choice([role |-> "assistant"], "stop")>>],
     [choices |-> <<Choice([content |-> "Hel"], None),
                    Choice([role |-> "assistant"], "length")>>]}

\* failures the backend capability raises (subclasses of Exception)
TransportErrors == {"APIConnectionError", "RateLimitError"}
\* failures of vertexai.init
VertexErrors == {"GoogleAuthError"}
\* answers of a non-streaming completion
Answers == {"answer"}

\* a plausible slip: a chunk without a content fragment is skipped
TokenEventsContentOnly(chunk) ==
    IF Len(chunk["choices"]) > 0
    THEN IF "content" \in DOMAIN chunk["choices"][1]["delta"]
         THEN <<[message |-> chunk["choices"][1]["delta"]["content"],
                 finish_reason |-> chunk["choices"][1]["finish_reason"]]>>
         ELSE <<>>
    ELSE <<>>

\* generate_stream, lines 116-126: the events one chunk yields
TokenEvents(chunk) ==
    IF Len(chunk["choices"]) > 0
    THEN IF "content" \in DOMAIN chunk["choices"][1]["delta"]
         THEN <<[message |-> chunk["choices"][1]["delta"]["content"],
                 finish_reason |-> chunk["choices"][1]["finish_reason"]]>>
         ELSE <<[message |-> "",
                 finish_reason |-> chunk["choices"][1]["finish_reason"]]>>
    ELSE <<>>

\* ------------------------------------------------------------------- state
VARIABLES
    env,        \* os.environ, restricted to the names generate_stream reads
    openai,     \* module-level configuration of the openai client
    budget,     \* what the environment may still do: calls, env changes, chunks
    kind,       \* "none" | "generate" | "stream": the call being served
    args,       \* (queries, context, conversation) of the call
    pc,         \* position of the call's body
    consumer,   \* "idle" | "waiting": is a request for the next event pending
    messages,   \* the composed prompt (<<>> before prepare_messages ran)
    requests,   \* outbound completion requests this call has issued
    envAtCall,  \* os.environ as the body of the call read it
    transport,  \* chunks delivered so far and how the stream ended
    events,     \* TokenEvents the consumer has received, in order
    result,     \* "none" | "exhausted" | an error | the returned answer
    blocking    \* what the backend answers to a non-streaming request

vars == <<env, openai, budget, kind, args, pc, consumer, messages, requests,
          envAtCall, transport, events, result, blocking>>

NoArgs ==
    [queries |-> <<>>, context |-> <<>>, conversation |-> <<>>,
     conversationIsNone |-> TRUE]

FreshTransport == [chunks |-> <<>>, end |-> "open"]

\* the object after __init__, before any call
InitCall ==
    /\ openai = OpenAIDefaults
    /\ kind = "none"
    /\ args = NoArgs
    /\ pc = "idle"
    /\ consumer = "idle"
    /\ messages = <<>>
    /\ requests = <<>>
    /\ envAtCall = env
    /\ transport = FreshTransport
    /\ events = <<>>
    /\ result = "none"
    /\ blocking = "none"

Init ==
    /\ env \in StartEnvs
    /\ budget = [calls |-> MaxCalls, env |-> MaxEnvChanges,
                 chunks |-> MaxCfgChunks]
    /\ InitCall

InitStream ==
    /\ env \in StartEnvs
    /\ budget = [calls |-> 1, env |-> 0, chunks |-> MaxChunks]
    /\ InitCall

InitCompose ==
    /\ env = EnvNone
    /\ budget = [calls |-> 0, env |-> 0, chunks |-> 0]
    /\ openai = OpenAIDefaults
    /\ kind = "none"
    /\ args \in ComposeArgs
    /\ pc = "idle"
    /\ consumer = "idle"
    /\ messages = <<>>
    /\ requests = <<>>
    /\ envAtCall = env
    /\ transport = FreshTransport
    /\ events = <<>>
    /\ result = "none"
    /\ blocking = "none"

\* ----------------------------------------------------------------- actions
\* prepare_messages applied to the arguments (lines 133-167)
Compose ==
    /\ messages = <<>>
    /\ messages' = prepare_messages(args.queries, args.context,
                                    DefaultConversation(args))
    /\ UNCHANGED <<env, openai, budget, kind, args, pc, consumer, requests,
                   envAtCall, transport, events, result, blocking>>

\* another part of the process changes one name of os.environ
SetEnv ==
    /\ budget.env > 0
    /\ \E e \in EnvSet :
          /\ Cardinality({n \in DOMAIN env : e[n] # env[n]}) = 1
          /\ env' = e
    /\ budget' = [budget EXCEPT !.env = @ - 1]
    /\ UNCHANGED <<openai, kind, args, pc, consumer, messages, requests,
                   envAtCall, transport, events, result, blocking>>

\* a caller invokes generate(...) or generate_stream(...): the coroutine or
\* async generator object is created, its body has not run yet
Invoke ==
    /\ pc \in {"idle", "done", "failed"}
    /\ budget.calls > 0
    /\ \E k \in {"generate", "stream"}, a \in CallArgs :
          /\ kind' = k
          /\ args' = a
          /\ blocking' \in (IF k = "generate"
                            THEN Answers \cup TransportErrors ELSE {"none"})
    /\ budget' = [budget EXCEPT !.calls = @ - 1]
    /\ pc' = "start"
    /\ consumer' = "idle"
    /\ messages' = <<>>
    /\ requests' = <<>>
    /\ envAtCall' = env
    /\ transport' = FreshTransport
    /\ events' = <<>>
    /\ result' = "none"
    /\ UNCHANGED <<env, openai>>

\* generate, lines 40-67, run up to its first suspension.  The name openai is
\* looked up among the module's globals (the import on line 86 binds a local
\* of generate_stream only), so line 52 is reached only after vertexai.init
\* succeeded and then raises NameError; "except Exception: raise" re-raises.
Generate ==
    /\ kind = "generate"
    /\ pc = "start"
    /\ messages' = prepare_messages(args.queries, args.context,
                                    DefaultConversation(args))
    /\ envAtCall' = env
    /\ \E init \in {"ok"} \cup VertexErrors :
          IF init # "ok"
          THEN /\ pc' = "failed"
               /\ result' = init
               /\ UNCHANGED <<openai, requests>>
          ELSE IF "openai" \notin ModuleGlobals
          THEN /\ pc' = "failed"
               /\ result' = "NameError"
               /\ UNCHANGED <<openai, requests>>
          ELSE LET base_url == environ_get(env, "OPENAI_BASE_URL", "")
                   cfg == IF base_url # ""
                          THEN [openai EXCEPT !.api_base = base_url]
                          ELSE openai
               IN  /\ openai' = cfg
                   /\ requests' = Append(requests,
                         [arguments |-> GenerateArguments(openai, messages'),
                          config |-> cfg])
                   /\ pc' = "to_thread"
                   /\ result' = "none"
    /\ UNCHANGED <<env, budget, kind, args, consumer, transport, events,
                   blocking>>

\* ---------------------------------------------------------- generate_stream
\* a plausible slip: the loop ends at the first populated finish_reason
OnChunkStopAtFinish(chunk) ==
    LET evs == TokenEvents(chunk)
    IN  [emit |-> evs,
         pc |-> IF evs = <<>> THEN "fetch"
                ELSE IF evs[1].finish_reason # None THEN "done"
                ELSE "yielded",
         consumer |-> IF evs = <<>> THEN "waiting" ELSE "idle"]

\* a plausible slip: the producer keeps fetching after it handed an event over
OnChunkReadAhead(chunk) ==
    LET evs == TokenEvents(chunk)
    IN  [emit |-> evs,
         pc |-> "fetch",
         consumer |-> IF evs = <<>> THEN "waiting" ELSE "idle"]

\* lines 114-126, one turn of "while True" after __anext__ returned a chunk:
\* a yield hands the event to the consumer and suspends the generator; a
\* chunk without choices goes round the loop to the next __anext__
OnChunk(chunk) ==
    LET evs == TokenEvents(chunk)
    IN  [emit |-> evs,
         pc |-> IF evs = <<>> THEN "fetch" ELSE "yielded",
         consumer |-> IF evs = <<>> THEN "waiting" ELSE "idle"]

\* a plausible slip: end-of-stream is caught inside the loop, which goes on
OnStopAsyncIterationRetry == [pc |-> "fetch", consumer |-> "waiting",
                              result |-> "none"]

\* lines 127-128: "except StopAsyncIteration: pass", the generator returns and
\* the consumer's pending request ends the iteration normally
OnStopAsyncIteration == [pc |-> "done", consumer |-> "idle",
                         result |-> "exhausted"]

\* a plausible slip: the failure is swallowed like end-of-stream
OnExceptionSwallow(e) == [pc |-> "done", consumer |-> "idle",
                          result |-> "exhausted"]

\* lines 130-131: "except Exception: raise", the consumer's pending request
\* raises the same exception
OnException(e) == [pc |-> "failed", consumer |-> "idle", result |-> e]

\* the consumer's first request for an event runs lines 81-111 up to the
\* await of acreate: compose, write the configuration, issue the request
StreamStart ==
    /\ kind = "stream"
    /\ pc = "start"
    /\ consumer = "idle"
    /\ messages' = prepare_messages(args.queries, args.context,
                                    DefaultConversation(args))
    /\ envAtCall' = env
    /\ openai' = ApplyConfig(openai, env)
    /\ requests' = Append(requests,
          [arguments |-> StreamArguments(openai', messages'),
           config |-> openai'])
    /\ pc' = "acreate"
    /\ consumer' = "waiting"
    /\ UNCHANGED <<env, budget, kind, args, transport, events, result,
                   blocking>>

\* the backend accepted the request: acreate returns the chunk iterator
AcreateOk ==
    /\ pc = "acreate"
    /\ pc' = "fetch"
    /\ UNCHANGED <<env, openai, budget, kind, args, consumer, messages,
                   requests, envAtCall, transport, events, result, blocking>>

\* the backend raised while the request was made
AcreateFail ==
    /\ pc = "acreate"
    /\ \E e \in TransportErrors :
          /\ transport' = [transport EXCEPT !.end = e]
          /\ pc' = OnException(e).pc
          /\ consumer' = OnException(e).consumer
          /\ result' = OnException(e).result
    /\ UNCHANGED <<env, openai, budget, kind, args, messages, requests,
                   envAtCall, events, blocking>>

\* completion.__anext__() returns a chunk, which is mapped at once
Receive ==
    /\ pc = "fetch"
    /\ transport.end = "open"
    /\ Len(transport.chunks) < budget.chunks
    /\ \E chunk \in Chunks :
          /\ transport' = [transport EXCEPT !.chunks = Append(@, chunk)]
          /\ events' = events \o OnChunk(chunk).emit
          /\ pc' = OnChunk(chunk).pc
          /\ consumer' = OnChunk(chunk).consumer
    /\ UNCHANGED <<env, openai, budget, kind, args, messages, requests,
                   envAtCall, result, blocking>>

\* completion.__anext__() raises StopAsyncIteration
ReceiveEnd ==
    /\ pc = "fetch"
    /\ transport.end = "open"
    /\ transport' = [transport EXCEPT !.end = "eos"]
    /\ pc' = OnStopAsyncIteration.pc
    /\ consumer' = OnStopAsyncIteration.consumer
    /\ result' = OnStopAsyncIteration.result
    /\ UNCHANGED <<env, openai, budget, kind, args, messages, requests,
                   envAtCall, events, blocking>>

\* completion.__anext__() raises a transport failure
ReceiveFail ==
    /\ pc = "fetch"
    /\ transport.end = "open"
    /\ \E e \in TransportErrors :
          /\ transport' = [transport EXCEPT !.end = e]
          /\ pc' = OnException(e).pc
          /\ consumer' = OnException(e).consumer
          /\ result' = OnException(e).result
    /\ UNCHANGED <<env, openai, budget, kind, args, messages, requests,
                   envAtCall, events, blocking>>

\* the consumer asks for the next event: the generator resumes after its yield
Resume ==
    /\ kind = "stream"
    /\ pc = "yielded"
    /\ consumer = "idle"
    /\ pc' = "fetch"
    /\ consumer' = "waiting"
    /\ UNCHANGED <<env, openai, budget, kind, args, messages, requests,
                   envAtCall, transport, events, result, blocking>>

\* ---------------------------------------------------------- specifications
NextStream ==
    \/ Invoke
    \/ Generate
    \/ StreamStart
    \/ AcreateOk
    \/ AcreateFail
    \/ Receive
    \/ ReceiveEnd
    \/ ReceiveFail
    \/ Resume

Next ==
    \/ NextStream
    \/ SetEnv

\* calls made one after another while os.environ changes
Spec == Init /\ [][Next]_vars

\* one call, its response followed chunk by chunk
SpecStream == InitStream /\ [][NextStream]_vars

\* the consumer keeps asking (StreamStart, Resume) and the backend answers
\* every request it was sent (Acreate*, Receive*)
FairSpecStream ==
    /\ SpecStream
    /\ WF_vars(StreamStart)
    /\ WF_vars(Resume)
    /\ WF_vars(AcreateOk \/ AcreateFail)
    /\ WF_vars(Receive \/ ReceiveEnd \/ ReceiveFail)

\* prepare_messages on every bounded input
SpecCompose == InitCompose /\ [][Compose]_vars

\* ------------------------------------------------------------------ claims
\* The event a chunk stands for, as the contract of the stream states it.
EventOf(chunk) ==
    LET first == Head(chunk.choices)
    IN  [message |-> IF "content" \in DOMAIN first.delta
                     THEN first.delta.content ELSE "",
         finish_reason |-> first.finish_reason]

RECURSIVE ExpectedEvents(_)
ExpectedEvents(chunks) ==
    IF chunks = <<>> THEN <<>>
    ELSE (IF Head(chunks).choices = <<>> THEN <<>>
          ELSE <<EventOf(Head(chunks))>>) \o ExpectedEvents(Tail(chunks))

Terminal == {"done", "failed"}

\* C1: the composed prompt has 2 + |conversation| entries, the first of role
\* system, the last of role user, and entries 2..|conversation|+1 are the
\* conversation turns (role and content) in their order, whatever the inputs,
\* empty ones included.
C1_ComposedShape ==
    messages # <<>> =>
        LET conv == DefaultConversation(args)
        IN  /\ Len(messages) = 2 + Len(conv)
            /\ messages[1].role = "system"
            /\ messages[Len(messages)].role = "user"
            /\ \A i \in 1..Len(conv) :
                  messages[i + 1] = [role |-> conv[i].type,
                                     content |-> <<conv[i].content>>]

C1_Witness ==
    /\ Len(messages) = 4
    /\ args.queries = <<>>
    /\ args.context = <<>>
    /\ args.conversation[1].type = "system"
    /\ args.conversation[2] = args.conversation[1]

C3_GenerateReturnsAnswer ==
    (/\ kind = "generate"
     /\ pc \in Terminal
     /\ blocking \in Answers
     /\ result \notin VertexErrors)
        => (pc = "done" /\ result = blocking /\ Len(requests) = 1)

\* C4 (as claimed): a finished call, successful or failed, has issued exactly
\* one outbound completion request.
C4_ExactlyOneRequest ==
    pc \in Terminal => Len(requests) = 1

\* C5: once the transport has failed, the consumer holds exactly the events
\* of the chunks delivered before the failure and has been raised the same
\* error, and receives no further event; end-of-stream is reported as the
\* normal end and never as an error.
C5_State ==
    /\ transport.end \in TransportErrors =>
          /\ pc = "failed"
          /\ consumer = "idle"
          /\ result = transport.end
          /\ events = ExpectedEvents(transport.chunks)
    /\ transport.end = "eos" =>
          /\ pc = "done"
          /\ result = "exhausted"

C5_FailurePropagates ==
    /\ []C5_State
    /\ [][(pc = "failed" /\ pc' = "failed") => events' = events]_vars

C5_Witness ==
    /\ pc = "failed"
    /\ result = "RateLimitError"
    /\ transport.end = "RateLimitError"
    /\ Len(transport.chunks) = 2
    /\ Len(events) = 1

\* C6: a stream whose transport does not fail is consumed to its end: every
\* started generate_stream reaches Completed (pc = "done"), and end-of-stream
\* always means normal completion.
C6_StreamTerminates ==
    /\ (kind = "stream" /\ pc = "start")
          ~> (pc = "done" \/ transport.end \in TransportErrors)
    /\ [](transport.end = "eos" => (pc = "done" /\ consumer = "idle"))

C6_Witness ==
    /\ kind = "stream"
    /\ pc = "done"
    /\ transport.end = "eos"
    /\ Len(transport.chunks) >= 2

\* C7 (as claimed): the configuration and deployment identifier of every
\* request are those the call's own settings yield, whatever earlier calls
\* wrote to the backend configuration.
C7_RequestFromOwnConfig ==
    kind = "stream" =>
        \A i \in 1..Len(requests) :
            LET own == ApplyConfig(OpenAIDefaults, envAtCall)
            IN  /\ requests[i].config = own
                /\ ("deployment_id" \in DOMAIN requests[i].arguments)
                      <=> (own.api_type = "azure")

\* the step in which generate_stream writes the configuration and sends
IsStreamStart == pc = "start" /\ pc' = "acreate"

FrameOfConditionalSettings ==
    /\ env["OPENAI_API_TYPE"] = Absent => openai'.api_type = openai.api_type
    /\ env["OPENAI_API_TYPE"] # Absent =>
          openai'.api_type = env["OPENAI_API_TYPE"]
    /\ env["OPENAI_API_VERSION"] = Absent =>
          openai'.api_version = openai.api_version
    /\ env["OPENAI_API_VERSION"] # Absent =>
          openai'.api_version = env["OPENAI_API_VERSION"]
    /\ (env["OPENAI_API_BASE"] = Absent
            /\ env["OPENAI_BASE_URL"] \in {Absent, ""})
          => openai'.api_base = openai.api_base
    /\ openai'.api_base # openai.api_base =>
          openai'.api_base \in {env["OPENAI_API_BASE"], env["OPENAI_BASE_URL"]}
    /\ ("deployment_id" \in DOMAIN requests'[1].arguments)
          <=> (openai'.api_type = "azure")
    /\ requests'[1].config = openai'

\* C8 (as claimed): every backend configuration value, the credential
\* included, is written only when its setting is present and is left
\* unchanged when the setting is absent.
C8_AllSettingsConditional ==
    [][IsStreamStart =>
          /\ FrameOfConditionalSettings
          /\ env["OPENAI_API_KEY"] = Absent =>
                openai'.api_key = openai.api_key]_vars

\* C8 (amended): endpoint, API type and API version are written only when
\* their setting is present (the base-URL override only when non-empty) and
\* are unchanged otherwise; the deployment identifier is in the request
\* exactly when the resulting API type is azure; the credential is written
\* always, with None when its setting is absent.
C8_CredentialAlwaysWritten ==
    [][IsStreamStart =>
          /\ FrameOfConditionalSettings
          /\ openai'.api_key = IF env["OPENAI_API_KEY"] = Absent
                               THEN None ELSE env["OPENAI_API_KEY"]]_vars

C8_Witness ==
    /\ pc = "acreate"
    /\ envAtCall["OPENAI_API_TYPE"] = Absent
    /\ envAtCall["OPENAI_API_VERSION"] = Absent
    /\ envAtCall["OPENAI_API_KEY"] = Absent
    /\ openai.api_type = "azure"
    /\ openai.api_key = None
    /\ "deployment_id" \in DOMAIN requests[1].arguments

NumWithChoices(chunks) ==
    Cardinality({i \in 1..Len(chunks) : chunks[i].choices # <<>>})

\* C9: between two requests of the consumer the generator is suspended (not
\* started, at a yield, or finished) with every event of the fetched chunks
\* handed over and nothing fetched past the last event; the transport is
\* asked for a chunk only while a request of the consumer is pending.
C9_State ==
    (kind = "stream" /\ consumer = "idle") =>
        /\ pc \in {"start", "yielded", "done", "failed"}
        /\ Len(events) = NumWithChoices(transport.chunks)
        /\ pc = "yielded" =>
              /\ transport.chunks # <<>>
              /\ transport.chunks[Len(transport.chunks)].choices # <<>>

C9_PullBased ==
    /\ []C9_State
    /\ [][(transport' # transport /\ transport' # FreshTransport)
              => consumer = "waiting"]_vars

C9_Witness ==
    /\ pc = "yielded"
    /\ consumer = "idle"
    /\ Len(transport.chunks) = 3
    /\ transport.chunks[2].choices = <<>>
    /\ Len(events) = 2

\* C10: an event with a populated finish_reason does not end the sequence:
\* the stream is over only when the transport has signalled end-of-stream or
\* raised, and the chunks after such an event are mapped like all others.
C10_FinishDoesNotStop ==
    kind = "stream" =>
        /\ pc = "done" => transport.end = "eos"
        /\ pc = "failed" => transport.end \in TransportErrors
        /\ (\E i \in 1..Len(events) : events[i].finish_reason # None)
              => events = ExpectedEvents(transport.chunks)

C10_Witness ==
    /\ pc = "done"
    /\ Len(events) = 3
    /\ events[1].finish_reason = "stop"
    /\ events[3].message = "Hel"

====
